---- MODULE Spec2Model ----
(***************************************************************************)
(* A model of resumy (src/src/resumy/resumy.py): the legacy-to-jsonresume  *)
(* transformer from_resumy_to_jsonschema, the metadata normalizer          *)
(* normalize_args, and the command handlers cmd_build, cmd_validate and    *)
(* cmd_normalize with their exit codes.                                    *)
(*                                                                         *)
(* Python mappings are functions whose DOMAIN is the set of keys present;  *)
(* a subscript d['k'] on an absent key raises KeyError.  Python lists are  *)
(* sequences.  A raised exception is carried in the field exc of the       *)
(* interpreter state and skips every later statement.                      *)
(***************************************************************************)
EXTENDS Integers, Sequences, FiniteSets, TLC

VARIABLES
    command,     \* the sub-command being run ("build", "validate", "normalize", "transform")
    args,        \* the argparse Namespace of the command
    env,         \* the files and external engines the run meets
    config,      \* the document the handler / transformer holds
    new_config,  \* the document returned by from_resumy_to_jsonschema
    pc,          \* the position in the handler
    trace,       \* the pipeline steps executed so far, in order
    theme_path,  \* cmd_build's resolved theme directory (path components)
    output_file, \* what was written at args.output (EmptyMap: nothing)
    outcome      \* how the handler ended

vars == <<command, args, env, config, new_config, pc, trace, theme_path,
          output_file, outcome>>

(***************************************************************************)
(* Bounds of the model.                                                    *)
(***************************************************************************)
\* longest job_experience.content / education.content sequence enumerated
MaxEntries == 2

(***************************************************************************)
(* Python values.                                                          *)
(***************************************************************************)
\* the empty mapping {} (falsy, like None, in `if config['skills']:`)
EmptyMap == <<>>

\* the Python None of an argparse attribute that was not given
None == "<None>"

HasKey(d, k) == k \in DOMAIN d

HasKeys(d, ks) == ks \subseteq DOMAIN d

\* d[k] = v
Put(d, k, v) == (k :> v) @@ d

\* truthiness of a string-or-None value and of a mapping
TruthyStr(s) == s # None /\ s # ""

TruthyMap(m) == DOMAIN m # {}

\* either no key at all, or key k with one of the values
OptField(k, values) == {EmptyMap} \cup {k :> v : v \in values}

\* all sequences over S of length 0..n
SeqsUpTo(S, n) == UNION {[1..k -> S] : k \in 0..n}

Raise(st, e) == [st EXCEPT !.exc = e]

(***************************************************************************)
(* get_month_from: '%b' month abbreviation -> zero-padded month number.    *)
(***************************************************************************)
MonthNames == <<"Jan", "Feb", "Mar", "Apr", "May", "Jun",
                "Jul", "Aug", "Sep", "Oct", "Nov", "Dec">>

\* strftime('%m')
TwoDigits(n) == IF n < 10 THEN "0" \o ToString(n) ELSE ToString(n)

MonthNumber(name) == CHOOSE i \in 1..Len(MonthNames) : MonthNames[i] = name

get_month_from(date) ==
    IF HasKey(date, "month")
    THEN IF \E i \in 1..Len(MonthNames) : MonthNames[i] = date.month
         THEN [exc |-> "none", val |-> TwoDigits(MonthNumber(date.month))]
         ELSE [exc |-> "ValueError", val |-> ""]
    ELSE [exc |-> "none", val |-> "01"]

\* get_month_from(d) followed by f"{d['year']}-{month}-01"
IsoDate(date) ==
    LET m == get_month_from(date) IN
    IF m.exc # "none" THEN m
    ELSE IF ~HasKey(date, "year") THEN [exc |-> "KeyError", val |-> ""]
    ELSE [exc |-> "none", val |-> ToString(date.year) \o "-" \o m.val \o "-01"]

(***************************************************************************)
(* from_resumy_to_jsonschema.  The interpreter state st holds the input    *)
(* object (config), the object under construction (new_config), the loop   *)
(* variable `work` (<<>> while unbound, <<entry>> once bound) and exc.     *)
(* `new_work` is, once bound, the last element of new_config['work'].      *)
(***************************************************************************)
ProfileKeys == {"firstname", "lastname", "email", "phone", "portfolio_url",
                "city", "country", "github_username", "linkedin_username"}

GithubProfile(username) ==
    [network |-> "Github", username |-> username,
     url |-> "https://github.com/" \o username]

LinkedinProfile(username) ==
    [network |-> "Linkedin", username |-> username,
     url |-> "https://www.linkedin.com/" \o username]

BasicsProfiles(profile) ==
    (IF TruthyStr(profile.github_username)
     THEN <<GithubProfile(profile.github_username)>> ELSE <<>>)
    \o
    (IF TruthyStr(profile.linkedin_username)
     THEN <<LinkedinProfile(profile.linkedin_username)>> ELSE <<>>)

Basics(st) ==
    IF ~HasKey(st.config, "profile") THEN Raise(st, "KeyError")
    ELSE LET profile == st.config.profile IN
         IF ~HasKeys(profile, ProfileKeys) THEN Raise(st, "KeyError")
         ELSE LET basics ==
                    [name |-> profile.firstname \o " " \o profile.lastname,
                     email |-> profile.email,
                     phone |-> profile.phone,
                     url |-> profile.portfolio_url,
                     profiles |-> BasicsProfiles(profile)]
                  located ==
                    IF TruthyStr(profile.city) \/ TruthyStr(profile.country)
                    THEN Put(basics, "location",
                             [city |-> profile.city, countryCode |-> profile.country])
                    ELSE basics
              IN [st EXCEPT !.new_config =
                      [meta |-> [breaks_before |-> EmptyMap], basics |-> located]]

\* `if 'include_page_break' in config[section]: breaks_before[name] = True`
\* followed by `new_config[name] = []`
OpenSection(st, section, name) ==
    LET nc == st.new_config
        meta == IF HasKey(st.config[section], "include_page_break")
                THEN [breaks_before |-> Put(nc.meta.breaks_before, name, TRUE)]
                ELSE nc.meta
    IN [st EXCEPT !.new_config = Put(Put(nc, "meta", meta), name, <<>>)]

AppendTo(st, name, entry) ==
    [st EXCEPT !.new_config = Put(@, name, Append(@[name], entry))]

NamesOf(items) == [i \in 1..Len(items) |-> items[i].name]

SkillsIter(st, skillcat) ==
    IF ~HasKeys(skillcat, {"title", "content"}) THEN Raise(st, "KeyError")
    ELSE IF \E i \in 1..Len(skillcat.content) : ~HasKey(skillcat.content[i], "name")
    THEN Raise(st, "KeyError")
    ELSE AppendTo(st, "skills",
                  [name |-> skillcat.title, keywords |-> NamesOf(skillcat.content)])

\* the test without its `'present' not in work` conjunct
WorkHasEndDateIgnoringPresent(work) == HasKey(work, "to")

\* `'present' not in work and 'to' in work`
WorkHasEndDate(work) == ~HasKey(work, "present") /\ HasKey(work, "to")

WorkIter(st0, work) ==
    LET st == [st0 EXCEPT !.work = <<work>>] IN
    IF ~HasKey(work, "from") THEN Raise(st, "KeyError")
    ELSE LET start == IsoDate(work.from) IN
    IF start.exc = "ValueError" THEN Raise(st, "ValueError")
    ELSE IF ~HasKeys(work, {"company_name", "title", "description"}) \/ start.exc # "none"
    THEN Raise(st, "KeyError")
    ELSE LET new_work == [name |-> work.company_name,
                          position |-> work.title,
                          startDate |-> start.val,
                          highlights |-> work.description]
         IN IF WorkHasEndDate(work)
            THEN LET end == IsoDate(work.to) IN
                 IF end.exc # "none" THEN Raise(st, end.exc)
                 ELSE AppendTo(st, "work", Put(new_work, "endDate", end.val))
            ELSE AppendTo(st, "work", new_work)

\* a write of key endDate through the reference `work`: the input entry
\* job_experience.content[last] itself
SetEndDateOnWork(st, date) ==
    LET c == st.config.job_experience.content
        n == Len(c)
    IN [st EXCEPT !.config.job_experience.content =
            [c EXCEPT ![n] = Put(c[n], "endDate", date)]]

\* `new_work['endDate'] = ...` in the education loop: new_work still refers
\* to the dictionary appended last to new_config['work']
SetEndDateOnNewWork(st, date) ==
    LET w == st.new_config.work
        n == Len(w)
    IN [st EXCEPT !.new_config = Put(@, "work", [w EXCEPT ![n] = Put(w[n], "endDate", date)])]

EduIter(st, edu) ==
    IF ~HasKey(edu, "from") THEN Raise(st, "KeyError")
    ELSE LET start == IsoDate(edu.from) IN
    IF start.exc = "ValueError" THEN Raise(st, "ValueError")
    ELSE IF ~HasKeys(edu, {"company_name", "title"}) \/ start.exc # "none"
    THEN Raise(st, "KeyError")
    ELSE LET new_edu == [institution |-> edu.company_name,
                         area |-> edu.title,
                         startDate |-> start.val]
         IN IF st.work = <<>> THEN Raise(st, "UnboundLocalError")
            ELSE IF ~HasKey(st.work[1], "present")
            THEN IF ~HasKey(edu, "to") THEN Raise(st, "KeyError")
                 ELSE LET end == IsoDate(edu.to) IN
                      IF end.exc # "none" THEN Raise(st, end.exc)
                      ELSE AppendTo(SetEndDateOnNewWork(st, end.val), "education", new_edu)
            ELSE AppendTo(st, "education", new_edu)

ProjectsIter(st, project) ==
    IF ~HasKeys(project, {"name", "skills"}) THEN Raise(st, "KeyError")
    ELSE IF \E i \in 1..Len(project.skills) : ~HasKey(project.skills[i], "name")
    THEN Raise(st, "KeyError")
    ELSE LET new_project ==
                [name |-> project.name,
                 description |-> IF HasKey(project, "description")
                                 THEN project.description ELSE "",
                 keywords |-> NamesOf(project.skills)]
         IN AppendTo(st, "projects",
                     IF HasKey(project, "url")
                     THEN Put(new_project, "url", project.url) ELSE new_project)

\* the body of one `for x in config[section]['content']:` loop
Iter(st, section, entry) ==
    CASE section = "skills" -> SkillsIter(st, entry)
      [] section = "job_experience" -> WorkIter(st, entry)
      [] section = "education" -> EduIter(st, entry)
      [] section = "projects" -> ProjectsIter(st, entry)

RECURSIVE Loop(_, _, _, _)
Loop(st, section, content, i) ==
    IF st.exc # "none" \/ i > Len(content) THEN st
    ELSE Loop(Iter(st, section, content[i]), section, content, i + 1)

\* `if config[section]:` ... one whole section branch
Section(st, section, name) ==
    IF st.exc # "none" THEN st
    ELSE IF ~HasKey(st.config, section) THEN Raise(st, "KeyError")
    ELSE IF ~TruthyMap(st.config[section]) THEN st
    ELSE IF ~HasKey(st.config[section], "content")
    THEN Raise(OpenSection(st, section, name), "KeyError")
    ELSE Loop(OpenSection(st, section, name), section, st.config[section].content, 1)

\* the result: the input object after the call, the returned object, and
\* the exception raised ("none" when the function returns)
from_resumy_to_jsonschema(cfg) ==
    LET st0 == [config |-> cfg, new_config |-> EmptyMap, work |-> <<>>, exc |-> "none"]
        st1 == Basics(st0)
        st2 == Section(st1, "skills", "skills")
        st3 == Section(st2, "job_experience", "work")
        st4 == Section(st3, "education", "education")
    IN Section(st4, "projects", "projects")

(***************************************************************************)
(* The legacy documents the transformer is run on.                         *)
(***************************************************************************)
ProfileBase ==
    [firstname |-> "Ada", lastname |-> "Lovelace", email |-> "ada@example.org",
     phone |-> "555-0100", portfolio_url |-> "https://ada.example.org"]

Profiles ==
    {ProfileBase @@ [city |-> c, country |-> k] @@ g @@ l :
        c \in {"", "London"}, k \in {"", "GB"},
        g \in OptField("github_username", {"", "ada"}),
        l \in OptField("linkedin_username", {"", "in/ada"})}

FullProfile ==
    ProfileBase @@ [city |-> "London", country |-> "GB",
                    github_username |-> "ada", linkedin_username |-> "in/ada"]

\* [from, to] pairs of PartialDates; an empty mapping stands for "no such key"
WorkDates ==
    {<<[from |-> [year |-> 2019, month |-> "Mar"]], [to |-> [year |-> 2022, month |-> "Dec"]]>>,
     <<[from |-> [year |-> 2020]], EmptyMap>>}

EduDates ==
    {<<[from |-> [year |-> 2010, month |-> "Sep"]], [to |-> [year |-> 2014, month |-> "Jun"]]>>,
     <<[from |-> [year |-> 2015]], EmptyMap>>}

WorkEntries ==
    {[company_name |-> "Acme", title |-> "Engineer", description |-> <<"Built things">>]
        @@ d[1] @@ d[2] @@ p :
        d \in WorkDates, p \in OptField("present", {TRUE})}

EduEntries ==
    {[company_name |-> "MIT", title |-> "BSc"] @@ d[1] @@ d[2] @@ p :
        d \in EduDates, p \in OptField("present", {TRUE})}

SkillsContent ==
    <<[title |-> "Languages", content |-> <<[name |-> "Go"], [name |-> "Rust"]>>]>>

ProjectsContent ==
    <<[name |-> "resumy", description |-> "A resume builder",
       skills |-> <<[name |-> "Python"]>>, url |-> "https://example.org/resumy"],
      [name |-> "notes", skills |-> <<>>]>>

\* a section: a mapping with a content sequence and an optional
\* include_page_break marker key
Sections(contents) ==
    {[content |-> c] @@ b : c \in contents, b \in OptField("include_page_break", {TRUE})}

\* a section key that is absent, present but falsy, or a mapping
AnySection(key, contents) == OptField(key, {EmptyMap} \cup Sections(contents))

LegacyDoc(profile, skills, job, edu, projects) ==
    [version |-> "0.0.1"] @@ profile @@ skills @@ job @@ edu @@ projects

\* every profile, with the optional sections all absent or all falsy
ProfileDocs ==
    {LegacyDoc(p, s[1], s[2], s[3], s[4]) :
        p \in OptField("profile", Profiles),
        s \in {<<EmptyMap, EmptyMap, EmptyMap, EmptyMap>>,
               <<[skills |-> EmptyMap], [job_experience |-> EmptyMap],
                 [education |-> EmptyMap], [projects |-> EmptyMap]>>}}

\* every combination of absent / falsy / filled sections and page breaks
SectionDocs ==
    {LegacyDoc([profile |-> FullProfile], s, j, e, p) :
        s \in AnySection("skills", {SkillsContent}),
        j \in AnySection("job_experience", SeqsUpTo(WorkEntries, 1)),
        e \in AnySection("education", {<<>>}),
        p \in AnySection("projects", {ProjectsContent})}

\* every job_experience / education content up to MaxEntries entries
EntryDocs ==
    {LegacyDoc([profile |-> FullProfile], [skills |-> EmptyMap],
               [job_experience |-> j], [education |-> e], [projects |-> EmptyMap]) :
        j \in {EmptyMap} \cup {[content |-> c] : c \in SeqsUpTo(WorkEntries, MaxEntries)},
        e \in {EmptyMap} \cup {[content |-> c] : c \in SeqsUpTo(EduEntries, MaxEntries)}}

LegacyDocs == ProfileDocs \cup SectionDocs \cup EntryDocs

(***************************************************************************)
(* The transformer applied to each legacy document.                        *)
(***************************************************************************)
Running == [kind |-> "running"]

Returned(value) == [kind |-> "return", value |-> value]

Uncaught(exc) == [kind |-> "uncaught", exc |-> exc]

Idle ==
    /\ args = EmptyMap
    /\ env = EmptyMap
    /\ trace = <<>>
    /\ theme_path = <<>>
    /\ output_file = EmptyMap

TransformInit ==
    /\ command = "transform"
    /\ config \in LegacyDocs
    /\ new_config = EmptyMap
    /\ pc = "call"
    /\ outcome = Running
    /\ Idle

Transform ==
    /\ pc = "call"
    /\ LET r == from_resumy_to_jsonschema(config) IN
        /\ config' = r.config
        /\ new_config' = IF r.exc = "none" THEN r.new_config ELSE EmptyMap
        /\ outcome' = IF r.exc = "none" THEN Returned(0) ELSE Uncaught(r.exc)
    /\ pc' = "done"
    /\ UNCHANGED <<command, args, env, trace, theme_path, output_file>>

TransformNext == Transform

SpecTransform == TransformInit /\ [][TransformNext]_vars

(***************************************************************************)
(* normalize_args.  e is the environment: whether args.output exists, its  *)
(* creation date, and today's date (datetime.now()).                       *)
(***************************************************************************)
\* a test that is always true, in place of `if not args.<field>:`
AlwaysUnset(value) == TRUE

\* `if not args.title:` and its siblings
Unset(value) == ~TruthyStr(value)

normalize_args(a, cfg, e) ==
    IF ~a.auto_metadata THEN [args |-> a, exc |-> "none"]
    ELSE LET a1 == IF Unset(a.title) THEN [a EXCEPT !.title = a.output] ELSE a
             a2 == IF Unset(a1.created_date)
                   THEN [a1 EXCEPT !.created_date =
                            IF e.output_exists THEN e.output_ctime ELSE e.now]
                   ELSE a1
             a3 == IF Unset(a2.modified_date)
                   THEN [a2 EXCEPT !.modified_date = e.now] ELSE a2
         IN IF Unset(a3.author)
               /\ (~HasKey(cfg, "profile")
                   \/ ~HasKeys(cfg.profile, {"firstname", "lastname"}))
            THEN [args |-> a3, exc |-> "KeyError"]
            ELSE LET a4 == IF Unset(a3.author)
                           THEN [a3 EXCEPT !.author =
                                    cfg.profile.firstname \o " " \o cfg.profile.lastname]
                           ELSE a3
                     a5 == IF Len(a4.keyword) = 0
                           THEN [a4 EXCEPT !.keyword = <<"resume">>] ELSE a4
                 IN [args |-> a5, exc |-> "none"]

(***************************************************************************)
(* The command handlers.  A handler ends by returning an integer, by       *)
(* returning None (err.errno of an IOError built from a message alone), or *)
(* by letting an exception escape; sys.exit(main()) turns that into the    *)
(* process exit code.                                                      *)
(***************************************************************************)
ReturnedNone == [kind |-> "return_none"]

\* errno of FileNotFoundError / PermissionError
ENOENT == 2

EACCES == 13

\* sys.exit(main()): None exits with 0, an uncaught exception with 1
ExitCode(o) ==
    CASE o.kind = "return" -> o.value
      [] o.kind = "return_none" -> 0
      [] o.kind = "uncaught" -> 1

\* `except ValidationError: ... return 0`
ValidationErrorIgnored == Returned(0)

\* `except ValidationError: ... return 2`
ValidationErrorExit == Returned(2)

\* os.path.dirname(os.path.abspath(__file__))
CurDir == <<"/", "site-packages", "resumy">>

DEFAULT_THEMES_DIR == "themes"

\* a relative path has no leading "/" component
IsAbsolute(path) == Head(path) = "/"

\* os.path.abspath(os.path.join(cur_dir, DEFAULT_THEMES_DIR, args.theme))
ResolveTheme(theme) ==
    IF ~IsAbsolute(theme) THEN CurDir \o <<DEFAULT_THEMES_DIR>> \o theme ELSE theme

\* DocumentMetadata(title=..., authors=..., keywords=..., created=..., modified=...)
DocumentMetadata(a) ==
    [title |-> a.title, authors |-> a.author, keywords |-> a.keyword,
     created |-> a.created_date, modified |-> a.modified_date]

\* the step after a successful load in cmd_build, validation always skipped
AfterLoadSkippingValidation(a) == "normalize_args"

\* `if not args.disable_validation: validate_config(...)`
AfterLoad(a) == IF a.disable_validation THEN "normalize_args" ELSE "validate"

\* `'version' in config and config['version'] == '0.0.1'`
IsLegacy(doc) == HasKey(doc, "version") /\ doc.version = "0.0.1"

Finish(o) ==
    /\ outcome' = o
    /\ pc' = "done"

Step(name) == trace' = Append(trace, name)

\* load_yaml(args.config_path) inside cmd_build's try
cmd_build_load ==
    /\ command = "build" /\ pc = "load"
    /\ Step("load")
    /\ CASE env.config_file = "missing" ->
                Finish(Returned(ENOENT)) /\ UNCHANGED config
         [] env.config_file = "malformed" ->
                Finish(Uncaught("YAMLError")) /\ UNCHANGED config
         [] env.config_file = "ok" ->
                config' = env.document /\ pc' = AfterLoad(args) /\ UNCHANGED outcome
    /\ UNCHANGED <<command, args, env, new_config, theme_path, output_file>>

\* validate_config(config, args.schema) inside cmd_build's try
cmd_build_validate ==
    /\ command = "build" /\ pc = "validate"
    /\ Step("validate")
    /\ CASE env.valid = "invalid" -> Finish(ValidationErrorExit)
         [] env.valid = "no_schema" -> Finish(Returned(ENOENT))
         [] env.valid = "valid" -> pc' = "normalize_args" /\ UNCHANGED outcome
    /\ UNCHANGED <<command, args, env, config, new_config, theme_path, output_file>>

\* args = normalize_args(args, config)
cmd_build_normalize_args ==
    /\ command = "build" /\ pc = "normalize_args"
    /\ Step("normalize_args")
    /\ LET r == normalize_args(args, config, env) IN
        /\ args' = r.args
        /\ IF r.exc = "none"
           THEN pc' = "transform" /\ UNCHANGED outcome
           ELSE Finish(Uncaught(r.exc))
    /\ UNCHANGED <<command, env, config, new_config, theme_path, output_file>>

\* if 'version' in config ...: config = from_resumy_to_jsonschema(config)
cmd_build_transform ==
    /\ command = "build" /\ pc = "transform"
    /\ IF IsLegacy(config)
       THEN LET r == from_resumy_to_jsonschema(config) IN
            /\ Step("transform")
            /\ IF r.exc = "none"
               THEN config' = r.new_config /\ pc' = "theme_path" /\ UNCHANGED outcome
               ELSE config' = r.config /\ Finish(Uncaught(r.exc))
       ELSE pc' = "theme_path" /\ UNCHANGED <<trace, config, outcome>>
    /\ UNCHANGED <<command, args, env, new_config, theme_path, output_file>>

\* theme_path = ... ; metadata = DocumentMetadata(...)
cmd_build_theme_path ==
    /\ command = "build" /\ pc = "theme_path"
    /\ Step("theme_path")
    /\ theme_path' = ResolveTheme(args.theme)
    /\ pc' = "render"
    /\ UNCHANGED <<command, args, env, config, new_config, output_file, outcome>>

\* create_resume(config, args.output, theme_path, metadata) inside the
\* second try of cmd_build
cmd_build_render ==
    /\ command = "build" /\ pc = "render"
    /\ Step("render")
    /\ IF theme_path \notin env.themes
       THEN Finish(ReturnedNone) /\ UNCHANGED output_file
       ELSE IF ~env.output_writable
       THEN Finish(Returned(EACCES)) /\ UNCHANGED output_file
       ELSE /\ output_file' = [document |-> config, metadata |-> DocumentMetadata(args)]
            /\ Finish(Returned(0))
    /\ UNCHANGED <<command, args, env, config, new_config, theme_path>>

\* load_yaml(args.config_path) inside cmd_validate's try
cmd_validate_load ==
    /\ command = "validate" /\ pc = "load"
    /\ Step("load")
    /\ CASE env.config_file = "missing" ->
                Finish(Uncaught("FileNotFoundError")) /\ UNCHANGED config
         [] env.config_file = "malformed" ->
                Finish(Uncaught("YAMLError")) /\ UNCHANGED config
         [] env.config_file = "ok" ->
                config' = env.document /\ pc' = "validate" /\ UNCHANGED outcome
    /\ UNCHANGED <<command, args, env, new_config, theme_path, output_file>>

\* validate_config(config, args.schema) inside cmd_validate's try
cmd_validate_validate ==
    /\ command = "validate" /\ pc = "validate"
    /\ Step("validate")
    /\ CASE env.valid = "invalid" -> Finish(ValidationErrorExit)
         [] env.valid = "no_schema" -> Finish(Uncaught("FileNotFoundError"))
         [] env.valid = "valid" -> Finish(Returned(0))
    /\ UNCHANGED <<command, args, env, config, new_config, theme_path, output_file>>

\* load_yaml(args.config_path) inside cmd_normalize's try
cmd_normalize_load ==
    /\ command = "normalize" /\ pc = "load"
    /\ Step("load")
    /\ CASE env.config_file = "missing" ->
                Finish(Uncaught("FileNotFoundError")) /\ UNCHANGED config
         [] env.config_file = "malformed" ->
                Finish(Uncaught("YAMLError")) /\ UNCHANGED config
         [] env.config_file = "ok" ->
                config' = env.document /\ pc' = "validate" /\ UNCHANGED outcome
    /\ UNCHANGED <<command, args, env, new_config, theme_path, output_file>>

\* validate_config(config, 'resumy.yaml') inside cmd_normalize's try
cmd_normalize_validate ==
    /\ command = "normalize" /\ pc = "validate"
    /\ Step("validate")
    /\ CASE env.valid = "invalid" -> Finish(ValidationErrorExit)
         [] env.valid = "no_schema" -> Finish(Uncaught("FileNotFoundError"))
         [] env.valid = "valid" -> pc' = "transform" /\ UNCHANGED outcome
    /\ UNCHANGED <<command, args, env, config, new_config, theme_path, output_file>>

\* new_config = from_resumy_to_jsonschema(config)
cmd_normalize_transform ==
    /\ command = "normalize" /\ pc = "transform"
    /\ Step("transform")
    /\ LET r == from_resumy_to_jsonschema(config) IN
        /\ config' = r.config
        /\ IF r.exc = "none"
           THEN new_config' = r.new_config /\ pc' = "write" /\ UNCHANGED outcome
           ELSE Finish(Uncaught(r.exc)) /\ UNCHANGED new_config
    /\ UNCHANGED <<command, args, env, theme_path, output_file>>

\* with open(args.output, 'w') as yfile: yaml.dump(new_config, yfile)
cmd_normalize_write ==
    /\ command = "normalize" /\ pc = "write"
    /\ Step("write")
    /\ IF ~env.output_writable
       THEN Finish(Uncaught("PermissionError")) /\ UNCHANGED output_file
       ELSE output_file' = [document |-> new_config] /\ Finish(Returned(0))
    /\ UNCHANGED <<command, args, env, config, new_config, theme_path>>

(***************************************************************************)
(* The runs: command lines and environments.                               *)
(***************************************************************************)
LegacyGood ==
    LegacyDoc([profile |-> FullProfile],
              [skills |-> [content |-> SkillsContent]],
              [job_experience |->
                  [content |-> <<[company_name |-> "Acme", title |-> "Engineer",
                                  description |-> <<"Built things">>,
                                  from |-> [year |-> 2019, month |-> "Mar"],
                                  present |-> TRUE]>>]],
              [education |->
                  [content |-> <<[company_name |-> "MIT", title |-> "BSc",
                                  from |-> [year |-> 2010, month |-> "Sep"],
                                  to |-> [year |-> 2014, month |-> "Jun"]]>>]],
              [projects |-> [content |-> ProjectsContent, include_page_break |-> TRUE]])

\* a legacy document on which the transformer raises
LegacyEducationOnly ==
    LegacyDoc([profile |-> FullProfile], [skills |-> EmptyMap],
              [job_experience |-> EmptyMap],
              [education |->
                  [content |-> <<[company_name |-> "MIT", title |-> "BSc",
                                  from |-> [year |-> 2015]]>>]],
              [projects |-> EmptyMap])

\* a document already in the jsonresume dialect
Canonical ==
    [basics |-> [name |-> "Ada Lovelace", email |-> "ada@example.org"],
     work |-> <<[name |-> "Acme", position |-> "Engineer",
                 startDate |-> "2019-03-01"]>>]

CommandDocs == {LegacyGood, LegacyEducationOnly, Canonical}

\* the config file: missing, not YAML, or holding one of the documents
ConfigFiles ==
    {[config_file |-> "missing"], [config_file |-> "malformed"]}
    \cup {[config_file |-> "ok", document |-> d] : d \in CommandDocs}

\* what validate_config meets: a document that fits the schema, one that
\* violates it, or no schema file
Validations == {"valid", "invalid", "no_schema"}

BuiltinTheme == <<"prairie">>

UserTheme == <<"/", "home", "ada", "mytheme">>

\* the sets of theme directories holding a theme.html
ThemeDirs == {{ResolveTheme(BuiltinTheme), UserTheme}, {ResolveTheme(BuiltinTheme)}, {}}

BuildArgs ==
    [config_path : {"resume.yaml"},
     schema : {"jsonresume.yaml"},
     disable_validation : BOOLEAN,
     auto_metadata : BOOLEAN,
     title : {None, "", "My CV"},
     author : {None, "Grace Hopper"},
     keyword : {<<>>, <<"cv", "python">>},
     created_date : {None, "2024-01-31"},
     modified_date : {None, "2024-02-29"},
     output : {"out.pdf"},
     theme : {BuiltinTheme, UserTheme}]

BuildEnvs ==
    {f @@ [valid |-> v, themes |-> t, output_exists |-> x, output_writable |-> w,
           output_ctime |-> "2025-06-15", now |-> "2026-11-01"] :
        f \in ConfigFiles, v \in Validations, t \in ThemeDirs,
        x \in BOOLEAN, w \in BOOLEAN}

ValidateArgs == [config_path : {"resume.yaml"}, schema : {"jsonresume.yaml"}]

ValidateEnvs == {f @@ [valid |-> v] : f \in ConfigFiles, v \in Validations}

NormalizeArgs == [config_path : {"resume.yaml"}, output : {"myconfig.yaml"}]

NormalizeEnvs ==
    {f @@ [valid |-> v, output_writable |-> w] :
        f \in ConfigFiles, v \in Validations, w \in BOOLEAN}

Init ==
    /\ command \in {"build", "validate", "normalize"}
    /\ args \in CASE command = "build" -> BuildArgs
                  [] command = "validate" -> ValidateArgs
                  [] command = "normalize" -> NormalizeArgs
    /\ env \in CASE command = "build" -> BuildEnvs
                 [] command = "validate" -> ValidateEnvs
                 [] command = "normalize" -> NormalizeEnvs
    /\ config = EmptyMap
    /\ new_config = EmptyMap
    /\ pc = "load"
    /\ trace = <<>>
    /\ theme_path = <<>>
    /\ output_file = EmptyMap
    /\ outcome = Running

Next ==
    \/ cmd_build_load
    \/ cmd_build_validate
    \/ cmd_build_normalize_args
    \/ cmd_build_transform
    \/ cmd_build_theme_path
    \/ cmd_build_render
    \/ cmd_validate_load
    \/ cmd_validate_validate
    \/ cmd_normalize_load
    \/ cmd_normalize_validate
    \/ cmd_normalize_transform
    \/ cmd_normalize_write

Spec == Init /\ [][Next]_vars

(***************************************************************************)
(* Properties of the transformer, checked under SpecTransform.             *)
(***************************************************************************)
OptionalSections == {"skills", "job_experience", "education", "projects"}

TransformDone == command = "transform" /\ pc = "done"

TransformReturned == TransformDone /\ outcome.kind = "return"

HasProfile(doc) == HasKey(doc, "profile") /\ HasKeys(doc.profile, ProfileKeys)

\* a legacy document with a complete profile in which every optional section
\* is absent, falsy, or a mapping with a content sequence
WellFormed(doc) ==
    /\ HasProfile(doc)
    /\ HasKeys(doc, OptionalSections)
    /\ \A k \in OptionalSections : TruthyMap(doc[k]) => HasKey(doc[k], "content")

\* C1: for every legacy document that has a profile section and in which
\* every optional section is missing, the transformer returns normally and
\* the returned document has exactly the keys meta and basics, with
\* meta.breaks_before empty.
C1_OnlyMetaAndBasics ==
    (TransformDone /\ HasProfile(config) /\ DOMAIN config \cap OptionalSections = {})
        => /\ outcome.kind = "return"
           /\ DOMAIN new_config = {"meta", "basics"}
           /\ new_config.meta.breaks_before = EmptyMap

\* C5: whenever the transformer returns, the i-th work entry has an endDate
\* iff the i-th job_experience entry has no present key and has a to date,
\* and that endDate is the ISO date of that same entry's to, whatever the
\* education section contains.
C5_WorkEndDate ==
    (TransformReturned /\ HasKey(new_config, "work"))
        => LET src == config.job_experience.content
               out == new_config.work
           IN /\ Len(out) = Len(src)
              /\ \A i \in 1..Len(src) :
                    /\ HasKey(out[i], "endDate")
                          <=> (~HasKey(src[i], "present") /\ HasKey(src[i], "to"))
                    /\ HasKey(out[i], "endDate")
                          => out[i].endDate = IsoDate(src[i].to).val

\* C6: whenever the transformer returns, no work entry and no education
\* entry whose legacy source entry carries a present key has an endDate,
\* whether or not the source entry also has a to field.
C6_PresentOmitsEndDate ==
    TransformReturned
        => /\ HasKey(new_config, "work")
                => \A i \in 1..Len(new_config.work) :
                       HasKey(config.job_experience.content[i], "present")
                           => ~HasKey(new_config.work[i], "endDate")
           /\ HasKey(new_config, "education")
                => \A i \in 1..Len(new_config.education) :
                       HasKey(config.education.content[i], "present")
                           => ~HasKey(new_config.education[i], "endDate")

\* C6 witness: a returned run with a present-marked work entry that has a
\* to date, a present-marked education entry that has a to date, and a last
\* work entry without present, so that the education loop wrote an endDate.
C6_Witness ==
    /\ TransformReturned
    /\ HasKey(new_config, "work") /\ HasKey(new_config, "education")
    /\ \E i \in 1..Len(config.job_experience.content) :
            HasKeys(config.job_experience.content[i], {"present", "to"})
    /\ \E i \in 1..Len(config.education.content) :
            HasKeys(config.education.content[i], {"present", "to"})
    /\ \E i \in 1..Len(new_config.work) :
            /\ HasKey(new_config.work[i], "endDate")
            /\ ~HasKey(config.job_experience.content[i], "to")

\* C7: for every well-formed legacy document with a truthy education
\* section the transformer returns, and emits in order one education entry
\* per education.content entry (institution, area, startDate from `from`),
\* whatever job_experience holds and whether or not the entry has a to.
C7_EducationTotal ==
    (TransformDone /\ WellFormed(config) /\ TruthyMap(config.education))
        => /\ outcome.kind = "return"
           /\ LET src == config.education.content
                  out == new_config.education
              IN /\ Len(out) = Len(src)
                 /\ \A i \in 1..Len(src) :
                       /\ out[i].institution = src[i].company_name
                       /\ out[i].area = src[i].title
                       /\ out[i].startDate = IsoDate(src[i].from).val

\* C8: the transformer never mutates its input: across the call, whether it
\* returns or raises, the input document keeps its value.
C8_InputUnchanged == [][pc = "call" => config' = config]_vars

\* C8 witness: a returned run in which the education loop performed its
\* endDate write (the last work entry carries the education entry's date).
C8_Witness ==
    /\ TransformReturned
    /\ HasKey(new_config, "work") /\ HasKey(new_config, "education")
    /\ Len(new_config.education) > 0
    /\ ~HasKey(config.job_experience.content[Len(new_config.work)], "to")
    /\ HasKey(new_config.work[Len(new_config.work)], "endDate")

\* the profiles sequence the claim describes: Github iff github_username is
\* truthy, Linkedin iff linkedin_username is truthy, Github first
C9_Expected(profile) ==
    (IF HasKey(profile, "github_username") /\ TruthyStr(profile.github_username)
     THEN <<GithubProfile(profile.github_username)>> ELSE <<>>)
    \o
    (IF HasKey(profile, "linkedin_username") /\ TruthyStr(profile.linkedin_username)
     THEN <<LinkedinProfile(profile.linkedin_username)>> ELSE <<>>)

\* C9: for every legacy profile, basics.profiles holds a Github entry iff
\* github_username is truthy and a Linkedin entry iff linkedin_username is
\* truthy, Github first; a profile lacking both usernames yields the empty
\* sequence.
C9_Profiles ==
    (/\ TransformDone
     /\ HasKey(config, "profile")
     /\ HasKeys(config.profile, ProfileKeys \ {"github_username", "linkedin_username"})
     /\ HasKeys(config, OptionalSections))
        => /\ outcome.kind = "return"
           /\ new_config.basics.profiles = C9_Expected(config.profile)

(***************************************************************************)
(* Properties of the command handlers, checked under Spec.                 *)
(***************************************************************************)
Commands == {"build", "validate", "normalize"}

Steps == {trace[i] : i \in 1..Len(trace)}

IsPrefix(s, t) == Len(s) <= Len(t) /\ \A i \in 1..Len(s) : s[i] = t[i]

\* the command did what it was asked to do
Succeeded ==
    CASE command = "build" -> output_file # EmptyMap
      [] command = "validate" -> "validate" \in Steps /\ env.valid = "valid"
      [] command = "normalize" -> output_file # EmptyMap

\* C2: in every build, validate and normalize run, every error of a
\* pipeline step is caught by the handler and converted to an exit code:
\* no exception escapes the handler, and the exit code is 0 only when the
\* command succeeded.
C2_ErrorsBecomeExitCodes ==
    (command \in Commands /\ pc = "done")
        => /\ outcome.kind # "uncaught"
           /\ ExitCode(outcome) = 0 => Succeeded

\* C3: whenever the schema validation step fails because the document
\* violates the schema, in validate, in build with validation enabled, or in
\* normalize, the command returns exit code 2 and no later step runs: the
\* renderer is never reached and no output file is written.
C3_ValidationFailureExits2 ==
    (command \in Commands /\ "validate" \in Steps /\ env.valid = "invalid")
        => /\ pc = "done"
           /\ outcome.kind = "return" /\ outcome.value = 2
           /\ ExitCode(outcome) = 2
           /\ trace[Len(trace)] = "validate"
           /\ Steps \cap {"normalize_args", "transform", "theme_path", "render", "write"} = {}
           /\ output_file = EmptyMap

\* C3 witness: a build with validation enabled whose document violates the
\* schema has ended.
C3_Witness ==
    /\ command = "build" /\ ~args.disable_validation
    /\ env.valid = "invalid"
    /\ trace = <<"load", "validate">>
    /\ pc = "done"

\* the document a build run loads (EmptyMap when the load fails)
LoadedDocument == IF env.config_file = "ok" THEN env.document ELSE EmptyMap

\* the steps of a build in the order the claim gives them
ClaimedSteps ==
    <<"load">>
    \o (IF args.disable_validation THEN <<>> ELSE <<"validate">>)
    \o (IF IsLegacy(LoadedDocument) THEN <<"transform">> ELSE <<>>)
    \o <<"normalize_args", "theme_path", "render">>

\* the same steps with metadata normalization before the transformation
AmendedSteps ==
    <<"load">>
    \o (IF args.disable_validation THEN <<>> ELSE <<"validate">>)
    \o <<"normalize_args">>
    \o (IF IsLegacy(LoadedDocument) THEN <<"transform">> ELSE <<>>)
    \o <<"theme_path", "render">>

\* C4 as stated: in every build run the steps execute in the order load,
\* validate (unless disabled), transform (iff version "0.0.1"), normalize
\* metadata, resolve theme path, render: metadata normalization comes
\* after the dialect transformation.
C4_ClaimedOrder == command = "build" => IsPrefix(trace, ClaimedSteps)

\* C4 amended: in every build run the steps execute in the order load,
\* validate (unless disabled), normalize metadata, transform (iff version
\* "0.0.1"), resolve theme path, render: metadata normalization comes
\* before the dialect transformation, never after it.
C4_AmendedOrder == command = "build" => IsPrefix(trace, AmendedSteps)

\* C4 witness: a build of a legacy document with validation enabled that
\* ran every step up to the renderer.
C4_Witness ==
    /\ command = "build" /\ pc = "done"
    /\ trace = <<"load", "validate", "normalize_args", "transform", "theme_path", "render">>
    /\ output_file # EmptyMap

MetadataFields == {"title", "author", "created_date", "modified_date"}

\* C10: normalize_args leaves every field unchanged when the auto-metadata
\* flag is not set, and when it is set it never overwrites a field the user
\* supplied (a non-empty title, author, created date, modified date or
\* keyword list): only unset or empty fields receive defaults.
C10_NormalizeArgsFrame ==
    [][(command = "build" /\ pc = "normalize_args")
        => IF ~args.auto_metadata
           THEN args' = args
           ELSE /\ DOMAIN args' = DOMAIN args
                /\ \A f \in MetadataFields :
                       args'[f] # args[f] => args[f] \in {None, ""}
                /\ args'.keyword # args.keyword => args.keyword = <<>>
                /\ \A f \in DOMAIN args \ (MetadataFields \cup {"keyword"}) :
                       args'[f] = args[f]]_vars

\* C10 witness: normalize_args ran with the flag set, kept the supplied
\* title and created date, and filled author, modified date and keywords.
C10_Witness ==
    /\ command = "build" /\ "normalize_args" \in Steps
    /\ args.auto_metadata
    /\ args.title = "My CV" /\ args.created_date = "2024-01-31"
    /\ args.author = "Ada Lovelace"
    /\ args.modified_date = "2026-11-01"
    /\ args.keyword = <<"resume">>

====
